---- MODULE Spec2Model ----
(***************************************************************************)
(* A model of cgol (src/src/main.cpp): the double-buffered bit board       *)
(* CellBoard and the simulation Life that owns one.                        *)
(*                                                                         *)
(* Three specifications share the variables:                               *)
(*   Spec        the program as main() drives it: a constructed Life, then *)
(*               ToggleSeed, SeedCell and Update calls in any order;       *)
(*   SeededSpec  a Life whose board the user has seeded with a pattern,    *)
(*               then ToggleSeed and Update calls in any order;            *)
(*   BoardSpec   the CellBoard interface on its own: a zero-initialised    *)
(*               CellBoard, then ChangeCellTo, CopyBuffer and SwitchBuffer *)
(*               calls in any order.                                       *)
(*                                                                         *)
(* The board is kept as the source keeps it: two arrays of bytes, a cell   *)
(* being bit (off % 8) of byte (off / 8) with off = xr * EDGE_SZ + yr.     *)
(***************************************************************************)
EXTENDS Integers, Sequences, FiniteSets

(***************************************************************************)
(* Program constants.  EDGE_SZ is 64 in the source; the model runs the     *)
(* same code on a 5 x 5 torus: 5 is the smallest edge on which a blinker   *)
(* has dead cells on every side, and it is not a multiple of 8, so cells   *)
(* of one column share bytes with the next column.                         *)
(***************************************************************************)
EDGE_SZ == 5

CELL_SZ == 12

(***************************************************************************)
(* Bounds of the model.                                                    *)
(***************************************************************************)
\* Operations on Life in one behaviour of Spec and of SeededSpec.
MaxSteps == 6

\* Calls on CellBoard in one behaviour of BoardSpec.
MaxCalls == 5

\* Seconds, in tenths, that the frames of one behaviour of MainSpec take.
MaxTime == 6

\* Left clicks in one behaviour of MainSpec.
MaxClicks == 1

\* Seconds, in tenths, that the frames of one behaviour of MainFairSpec take.
MaxFairTime == 4

VARIABLES
    board,      \* CellBoard::board, the front buffer: byte index -> 0..255
    backbuf,    \* CellBoard::backbuf, the back buffer
    seed_mode,  \* Life::seed_mode
    op,         \* history: the operation that ran last
    arg,        \* history: the pixel of that operation, when it was a SeedCell
                \*          call that got past the seed-mode guard
    prev,       \* history: the front buffer when that operation was called
    repeated,   \* history: that operation and the one before it were SeedCell
                \*          calls with the same pixel, both past the guard
    written,    \* history: of the batch of calls the last SwitchBuffer committed
                \*          (while op = "SwitchBuffer") or that is pending (else):
                \*          the pairs <<cell, value>> of what ChangeCellTo wrote
                \*          to each cell last, after the batch's last CopyBuffer
    copied,     \* history: that batch holds a CopyBuffer call
    discarded,  \* history: the call that ran last is a CopyBuffer call that found
                \*          the back buffer different from the front buffer
    steps,      \* history: number of operations so far
    prevmode,   \* history: seed_mode when the operation that ran last was called
    main_dt,    \* main: dt, in tenths of a second
    accumulatedTime, \* main: accumulatedTime, in tenths of a second
    main_t,     \* main: t, in tenths of a second
    pc,         \* main: where the main loop is: polling events ("events"), in
                \*       the fixed time step loop ("loop"), about to Render ("render")
    a0,         \* history: accumulatedTime when the time step loop was entered last
    t0,         \* history: t when the time step loop was entered last
    ucell,      \* Update: the iteration x * Rows + y its loops are at, Columns *
                \*         Rows when they are done, NotUpdating outside Update
    switches    \* history: SwitchBuffer calls made by the Update call that ran last

vars == <<board, backbuf, seed_mode, op, arg, prev, repeated, written, copied, discarded, steps,
          prevmode, main_dt, accumulatedTime, main_t, pc, a0, t0, ucell, switches>>

\* What the operations of Life and of CellBoard leave alone.
mainvars == <<main_dt, accumulatedTime, main_t, pc, a0, t0, ucell, switches>>

(***************************************************************************)
(* C++ integer arithmetic: / and % truncate towards zero.                  *)
(***************************************************************************)
CDiv(a, b) == IF a >= 0 THEN a \div b ELSE -((-a) \div b)

CRem(a, b) == IF a >= 0 THEN a % b ELSE -((-a) % b)

Pow2(n) == 2 ^ n

\* (byte & (1UL << bit)) > 0 ? 1 : 0
BitOf(byte, bit) == (byte \div Pow2(bit)) % 2

(***************************************************************************)
(* CellBoard                                                               *)
(***************************************************************************)
Rows == EDGE_SZ

Columns == EDGE_SZ

\* sizeof(board) / sizeof(board[0])
BufLen == CDiv(EDGE_SZ * EDGE_SZ, 8) + 1

ByteIdx == 0 .. (BufLen - 1)

\* = {0}
ZeroBuf == [i \in ByteIdx |-> 0]

\* adjust with the sign of a negative remainder dropped, not max added.
adjustAbs(val, max) ==
    LET v == CRem(val, max)
    IN  IF v < 0 THEN 0 - v ELSE v

\* adjust without its test of v < 0.
adjustTruncated(val, max) == CRem(val, max)

adjust(val, max) ==
    LET v == CRem(val, max)
    IN  IF v < 0 THEN v + max ELSE v

\* off with EDGE_SZ - 1 for the length of a column.
CellOffNarrow(x, y) == adjust(x, Columns) * (EDGE_SZ - 1) + adjust(y, Rows)

\* auto off = xr * EDGE_SZ + yr, of CellAt and of ChangeCellTo
CellOff(x, y) == adjust(x, Columns) * EDGE_SZ + adjust(y, Rows)

\* The body of CellAt, reading the buffer buf.
ReadCell(buf, x, y) ==
    LET off == CellOff(x, y)
        idx == CDiv(off, 8)
        bit == CRem(off, 8)
    IN  BitOf(buf[idx], bit)

CellAt(x, y) == ReadCell(board, x, y)

\* The body of ChangeCellTo, as the new contents of the back buffer bb.
WriteCell(bb, x, y, value) ==
    LET off == CellOff(x, y)
        idx == CDiv(off, 8)
        bit == CRem(off, 8)
        old == BitOf(bb[idx], bit)
    IN  IF value = 0
        THEN [bb EXCEPT ![idx] = @ - old * Pow2(bit)]
        ELSE [bb EXCEPT ![idx] = @ + (1 - old) * Pow2(bit)]

\* CopyBuffer leaving alone the bytes of the back buffer that hold a write.
CopiedBufKeeping(b, bb) == [i \in ByteIdx |-> IF bb[i] # 0 THEN bb[i] ELSE b[i]]

\* The body of CopyBuffer, as the new contents of the back buffer.
CopiedBuf(b, bb) == [i \in ByteIdx |-> b[i]]

\* SwitchBuffer without backbuf[i] = 0.
SwitchedBufsNoClear(b, bb) == <<[i \in ByteIdx |-> bb[i]], bb>>

\* The body of SwitchBuffer, as the new <<board, backbuf>>.
SwitchedBufs(b, bb) == <<[i \in ByteIdx |-> bb[i]], [i \in ByteIdx |-> 0]>>

(***************************************************************************)
(* Life                                                                    *)
(***************************************************************************)
\* The loop body's count without its last read, of (x+1, y+1).
NeighbourCountSeven(b, x, y) ==
      ReadCell(b, x - 1, y - 1) + ReadCell(b, x, y - 1) + ReadCell(b, x + 1, y - 1)
    + ReadCell(b, x - 1, y)                             + ReadCell(b, x + 1, y)
    + ReadCell(b, x - 1, y + 1) + ReadCell(b, x, y + 1)

\* The eight CellAt reads of Update's loop body, each adding one to cnt.
NeighbourCount(b, x, y) ==
      ReadCell(b, x - 1, y - 1) + ReadCell(b, x, y - 1) + ReadCell(b, x + 1, y - 1)
    + ReadCell(b, x - 1, y)                             + ReadCell(b, x + 1, y)
    + ReadCell(b, x - 1, y + 1) + ReadCell(b, x, y + 1) + ReadCell(b, x + 1, y + 1)

\* The loop body with cnt = 2 alone for the survival test.
UpdateCellLonely(b, bb, x, y) ==
    LET cnt == NeighbourCount(b, x, y)
        v   == ReadCell(b, x, y)
    IN  IF v = 1 /\ cnt = 2
        THEN WriteCell(bb, x, y, 1)
        ELSE IF v = 0 /\ cnt = 3
             THEN WriteCell(bb, x, y, 1)
             ELSE bb

\* The loop body with cnt >= 2 for the survival test.
UpdateCellCrowded(b, bb, x, y) ==
    LET cnt == NeighbourCount(b, x, y)
        v   == ReadCell(b, x, y)
    IN  IF v = 1 /\ cnt >= 2
        THEN WriteCell(bb, x, y, 1)
        ELSE IF v = 0 /\ cnt = 3
             THEN WriteCell(bb, x, y, 1)
             ELSE bb

\* One iteration of Update's inner loop: the back buffer after cell (x, y).
UpdateCell(b, bb, x, y) ==
    LET cnt == NeighbourCount(b, x, y)
        v   == ReadCell(b, x, y)
    IN  IF v = 1 /\ (cnt = 2 \/ cnt = 3)
        THEN WriteCell(bb, x, y, 1)
        ELSE IF v = 0 /\ cnt = 3
             THEN WriteCell(bb, x, y, 1)
             ELSE bb

\* Update's loops with x < board.Columns() - 1 for the test of the outer one.
RECURSIVE UpdateLoopShort(_, _, _)
UpdateLoopShort(b, bb, k) ==
    IF k >= (Columns - 1) * Rows
    THEN bb
    ELSE UpdateLoopShort(b, UpdateCell(b, bb, k \div Rows, k % Rows), k + 1)

\* Update's two loops, x outermost, from iteration k on: k = x * Rows + y.
RECURSIVE UpdateLoop(_, _, _)
UpdateLoop(b, bb, k) ==
    IF k >= Columns * Rows
    THEN bb
    ELSE UpdateLoop(b, UpdateCell(b, bb, k \div Rows, k % Rows), k + 1)

\* Update with seed mode off: the loops, then SwitchBuffer.
UpdatedBufs(b, bb) == SwitchedBufs(b, UpdateLoop(b, bb, 0))

\* SeedCell without its CopyBuffer call.
SeededBufsNoCopy(b, bb, px, py) ==
    LET x_ == CDiv(px, CELL_SZ)
        y_ == CDiv(py, CELL_SZ)
        c  == ReadCell(b, x_, y_)
        nc == IF c > 0 THEN 0 ELSE 1
    IN  SwitchedBufs(b, WriteCell(bb, x_, y_, nc))

\* SeedCell setting the cell instead of negating it.
SeededBufsSet(b, bb, px, py) ==
    LET x_ == CDiv(px, CELL_SZ)
        y_ == CDiv(py, CELL_SZ)
        cp == CopiedBuf(b, bb)
    IN  SwitchedBufs(b, WriteCell(cp, x_, y_, 1))

\* SeedCell with seed mode on, called with the pixel (px, py).
SeededBufs(b, bb, px, py) ==
    LET x_ == CDiv(px, CELL_SZ)
        y_ == CDiv(py, CELL_SZ)
        c  == ReadCell(b, x_, y_)
        nc == IF c > 0 THEN 0 ELSE 1
        cp == CopiedBuf(b, bb)
    IN  SwitchedBufs(b, WriteCell(cp, x_, y_, nc))

\* The back buffer the constructor of Life leaves: three ChangeCellTo calls.
ConstructedBackbuf ==
    LET x  == CDiv(Columns, 2)
        y  == CDiv(Rows, 2)
        b1 == WriteCell(ZeroBuf, x, y - 1, 1)
        b2 == WriteCell(b1, x, y, 1)
    IN  WriteCell(b2, x, y + 1, 1)

(***************************************************************************)
(* Inputs.                                                                 *)
(***************************************************************************)
\* Mouse positions along one axis of the window, which is EDGE_SZ * CELL_SZ
\* pixels wide: the last pixel of the first cell, a pixel inside the middle
\* cell and the last pixel of the window.
Pixels == {CELL_SZ - 1, CDiv(EDGE_SZ, 2) * CELL_SZ + 6, EDGE_SZ * CELL_SZ - 1}

\* Update's t and dt, in tenths of a second.
UpdateArgs == {<<0, 5>>, <<7, 1>>}

NoArg == <<>>

\* The cells of the torus, and the column or row an integer names on it.
Cells == (0 .. (EDGE_SZ - 1)) \X (0 .. (EDGE_SZ - 1))

Wrap(v) == v % EDGE_SZ

\* The history of writes: pairs <<cell, value>>, one at most for a cell.
NoneWritten == {}

None == 0 - 1

WrittenTo(w, c, value) == {p \in w : p[1] # c} \cup {<<c, value>>}

\* The value written to cell c last, or None.
Written(w, c) ==
    IF \E p \in w : p[1] = c THEN (CHOOSE p \in w : p[1] = c)[2] ELSE None

\* The coordinates BoardSpec calls ChangeCellTo with: one below zero, one
\* inside the board and one past its edge.
CallCoords == {0 - 1, 2, EDGE_SZ}

\* The values ChangeCellTo is called with (the constructor and Update pass 1,
\* SeedCell passes 0 or 1).
CallValues == {0, 1}

\* No Update call is running.
NotUpdating == 0 - 1

\* double dt = 0.5, in tenths of a second.
InitialDt == 5

\* main's variables before its loop, and no Update call running.
MainInitVars ==
    /\ main_dt = InitialDt
    /\ accumulatedTime = 0
    /\ main_t = 0
    /\ pc = "events"
    /\ a0 = 0
    /\ t0 = 0
    /\ ucell = NotUpdating
    /\ switches = 0

(***************************************************************************)
(* Spec: Life as main() drives it.                                         *)
(***************************************************************************)
Init ==
    /\ board = ZeroBuf
    /\ backbuf = ConstructedBackbuf
    /\ seed_mode = FALSE
    /\ op = "Life"
    /\ arg = NoArg
    /\ prev = ZeroBuf
    /\ repeated = FALSE
    /\ written = NoneWritten
    /\ copied = FALSE
    /\ discarded = FALSE
    /\ steps = 0
    /\ prevmode = FALSE
    /\ MainInitVars

\* ToggleSeed as seed_mode = true.
ToggleSeedOn ==
    /\ steps < MaxSteps
    /\ steps' = steps + 1
    /\ UNCHANGED mainvars
    /\ seed_mode' = TRUE
    /\ op' = "ToggleSeed"
    /\ arg' = NoArg
    /\ prev' = board
    /\ prevmode' = seed_mode
    /\ repeated' = FALSE
    /\ UNCHANGED <<board, backbuf, written, copied, discarded>>

ToggleSeed ==
    /\ steps < MaxSteps
    /\ steps' = steps + 1
    /\ UNCHANGED mainvars
    /\ seed_mode' = ~seed_mode
    /\ op' = "ToggleSeed"
    /\ arg' = NoArg
    /\ prev' = board
    /\ prevmode' = seed_mode
    /\ repeated' = FALSE
    /\ UNCHANGED <<board, backbuf, written, copied, discarded>>

\* SeedCell without its seed-mode guard.
SeedCellUnguarded(x, y) ==
    /\ steps < MaxSteps
    /\ steps' = steps + 1
    /\ UNCHANGED mainvars
    /\ LET r == SeededBufs(board, backbuf, x, y)
       IN  board' = r[1] /\ backbuf' = r[2]
    /\ op' = "SeedCell"
    /\ arg' = IF seed_mode THEN <<x, y>> ELSE NoArg
    /\ prev' = board
    /\ prevmode' = seed_mode
    /\ repeated' = (seed_mode /\ op = "SeedCell" /\ arg = <<x, y>>)
    /\ UNCHANGED <<seed_mode, written, copied, discarded>>

SeedCell(x, y) ==
    /\ steps < MaxSteps
    /\ steps' = steps + 1
    /\ UNCHANGED mainvars
    /\ IF ~seed_mode
       THEN UNCHANGED <<board, backbuf>>
       ELSE LET r == SeededBufs(board, backbuf, x, y)
            IN  board' = r[1] /\ backbuf' = r[2]
    /\ op' = "SeedCell"
    /\ arg' = IF seed_mode THEN <<x, y>> ELSE NoArg
    /\ prev' = board
    /\ prevmode' = seed_mode
    /\ repeated' = (seed_mode /\ op = "SeedCell" /\ arg = <<x, y>>)
    /\ UNCHANGED <<seed_mode, written, copied, discarded>>

\* Update without its seed-mode guard.
UpdateUnguarded(t, dt) ==
    /\ steps < MaxSteps
    /\ steps' = steps + 1
    /\ UNCHANGED mainvars
    /\ LET r == UpdatedBufs(board, backbuf)
       IN  board' = r[1] /\ backbuf' = r[2]
    /\ op' = "Update"
    /\ arg' = NoArg
    /\ prev' = board
    /\ prevmode' = seed_mode
    /\ repeated' = FALSE
    /\ UNCHANGED <<seed_mode, written, copied, discarded>>

\* Update running its loops a second time when dt is below its first value.
UpdateScaled(t, dt) ==
    /\ steps < MaxSteps
    /\ steps' = steps + 1
    /\ UNCHANGED mainvars
    /\ IF seed_mode
       THEN UNCHANGED <<board, backbuf>>
       ELSE LET r == UpdatedBufs(board, backbuf)
                q == IF dt < InitialDt THEN UpdatedBufs(r[1], r[2]) ELSE r
            IN  board' = q[1] /\ backbuf' = q[2]
    /\ op' = "Update"
    /\ arg' = NoArg
    /\ prev' = board
    /\ prevmode' = seed_mode
    /\ repeated' = FALSE
    /\ UNCHANGED <<seed_mode, written, copied, discarded>>

Update(t, dt) ==
    /\ steps < MaxSteps
    /\ steps' = steps + 1
    /\ UNCHANGED mainvars
    /\ IF seed_mode
       THEN UNCHANGED <<board, backbuf>>
       ELSE LET r == UpdatedBufs(board, backbuf)
            IN  board' = r[1] /\ backbuf' = r[2]
    /\ op' = "Update"
    /\ arg' = NoArg
    /\ prev' = board
    /\ prevmode' = seed_mode
    /\ repeated' = FALSE
    /\ UNCHANGED <<seed_mode, written, copied, discarded>>

Next ==
    \/ ToggleSeed
    \/ \E x \in Pixels, y \in Pixels : SeedCell(x, y)
    \/ \E a \in UpdateArgs : Update(a[1], a[2])

Spec == Init /\ [][Next]_vars

(***************************************************************************)
(* SeededSpec: Life after the user has seeded a pattern (ToggleSeed, one   *)
(* SeedCell per cell to change, ToggleSeed: every board is reached that    *)
(* way, with a zeroed back buffer), then run and paused.                   *)
(***************************************************************************)
\* The buffer holding exactly the cells of the set live.
RECURSIVE BufOfLoop(_, _, _)
BufOfLoop(live, bb, k) ==
    IF k >= Columns * Rows
    THEN bb
    ELSE BufOfLoop(live,
                   IF <<k \div Rows, k % Rows>> \in live
                   THEN WriteCell(bb, k \div Rows, k % Rows, 1)
                   ELSE bb,
                   k + 1)

BufOf(live) == BufOfLoop(live, ZeroBuf, 0)

\* Three cells in a row, centred on c: along x (horizontal), along y (vertical).
HBlinker(c) == {<<Wrap(c[1] - 1), c[2]>>, c, <<Wrap(c[1] + 1), c[2]>>}

VBlinker(c) == {<<c[1], Wrap(c[2] - 1)>>, c, <<c[1], Wrap(c[2] + 1)>>}

\* The 3 x 3 window centred on cell (0, 0), which wraps over all four edges.
Window == {<<Wrap(dx), Wrap(dy)>> : dx \in {0 - 1, 0, 1}, dy \in {0 - 1, 0, 1}}

\* The 2x2 block whose corner of least coordinates is c, wrapping.
Block(c) == {<<Wrap(c[1] + dx), Wrap(c[2] + dy)>> : dx \in {0, 1}, dy \in {0, 1}}

SeededPatterns ==
    {HBlinker(c) : c \in Cells} \cup {Block(c) : c \in Cells} \cup SUBSET Window

SeededInit ==
    /\ \E live \in SeededPatterns : board = BufOf(live)
    /\ backbuf = ZeroBuf
    /\ seed_mode = FALSE
    /\ op = "Seeded"
    /\ arg = NoArg
    /\ prev = ZeroBuf
    /\ repeated = FALSE
    /\ written = NoneWritten
    /\ copied = FALSE
    /\ discarded = FALSE
    /\ steps = 0
    /\ prevmode = FALSE
    /\ MainInitVars

SeededNext ==
    \/ ToggleSeed
    \/ \E a \in UpdateArgs : Update(a[1], a[2])

SeededSpec == SeededInit /\ [][SeededNext]_vars

(***************************************************************************)
(* BoardSpec: the CellBoard interface on its own.                          *)
(***************************************************************************)
BoardInit ==
    /\ board = ZeroBuf
    /\ backbuf = ZeroBuf
    /\ seed_mode = FALSE
    /\ op = "CellBoard"
    /\ arg = NoArg
    /\ prev = ZeroBuf
    /\ repeated = FALSE
    /\ written = NoneWritten
    /\ copied = FALSE
    /\ discarded = FALSE
    /\ steps = 0
    /\ prevmode = FALSE
    /\ MainInitVars

\* ChangeCellTo writing board[idx] instead of backbuf[idx].
ChangeCellToFront(x, y, value) ==
    /\ steps < MaxCalls
    /\ steps' = steps + 1
    /\ UNCHANGED <<prevmode, mainvars>>
    /\ board' = WriteCell(board, x, y, value)
    /\ op' = "ChangeCellTo"
    /\ written' = WrittenTo(IF op = "SwitchBuffer" THEN NoneWritten ELSE written,
                            <<Wrap(x), Wrap(y)>>, value)
    /\ copied' = (op # "SwitchBuffer" /\ copied)
    /\ discarded' = FALSE
    /\ prev' = board
    /\ UNCHANGED <<backbuf, seed_mode, arg, repeated>>

ChangeCellTo(x, y, value) ==
    /\ steps < MaxCalls
    /\ steps' = steps + 1
    /\ UNCHANGED <<prevmode, mainvars>>
    /\ backbuf' = WriteCell(backbuf, x, y, value)
    /\ op' = "ChangeCellTo"
    /\ written' = WrittenTo(IF op = "SwitchBuffer" THEN NoneWritten ELSE written,
                            <<Wrap(x), Wrap(y)>>, value)
    /\ copied' = (op # "SwitchBuffer" /\ copied)
    /\ discarded' = FALSE
    /\ prev' = board
    /\ UNCHANGED <<board, seed_mode, arg, repeated>>

CopyBuffer ==
    /\ steps < MaxCalls
    /\ steps' = steps + 1
    /\ UNCHANGED <<prevmode, mainvars>>
    /\ backbuf' = CopiedBuf(board, backbuf)
    /\ op' = "CopyBuffer"
    /\ written' = NoneWritten
    /\ copied' = TRUE
    /\ discarded' = (backbuf # board)
    /\ prev' = board
    /\ UNCHANGED <<board, seed_mode, arg, repeated>>

SwitchBuffer ==
    /\ steps < MaxCalls
    /\ steps' = steps + 1
    /\ UNCHANGED <<prevmode, mainvars>>
    /\ LET r == SwitchedBufs(board, backbuf)
       IN  board' = r[1] /\ backbuf' = r[2]
    /\ op' = "SwitchBuffer"
    /\ written' = IF op = "SwitchBuffer" THEN NoneWritten ELSE written
    /\ copied' = (op # "SwitchBuffer" /\ copied)
    /\ discarded' = FALSE
    /\ prev' = board
    /\ UNCHANGED <<seed_mode, arg, repeated>>

BoardNext ==
    \/ \E x \in CallCoords, y \in CallCoords, v \in CallValues : ChangeCellTo(x, y, v)
    \/ CopyBuffer
    \/ SwitchBuffer

BoardSpec == BoardInit /\ [][BoardNext]_vars

(***************************************************************************)
(* MainSpec: main()'s loop.  Times are in tenths of a second.  A frame     *)
(* polls the pending events, adds the time the last frame took to          *)
(* accumulatedTime, runs the fixed time step loop and renders.             *)
(***************************************************************************)
\* if (dt > 1.0) dt = 1.0
MaxDt == 10

\* if (dt < 0.1) dt = 0.1
MinDt == 1

\* What timeKeeper.ElapsedTimeInSeconds() returns: no time, less than the
\* first dt, the first dt.
Elapsed == {0, 2, 5}

\* Where the left clicks fall: the corner cell and the centre cell.
ClickPixels == {CELL_SZ - 1, CDiv(EDGE_SZ, 2) * CELL_SZ + 6}

MainInit ==
    /\ board = ZeroBuf
    /\ backbuf = ConstructedBackbuf
    /\ seed_mode = FALSE
    /\ op = "Life"
    /\ arg = NoArg
    /\ prev = ZeroBuf
    /\ repeated = FALSE
    /\ written = NoneWritten
    /\ copied = FALSE
    /\ discarded = FALSE
    /\ steps = 0
    /\ prevmode = FALSE
    /\ MainInitVars

\* What a key press that only changes dt leaves alone.
keyvars == <<board, backbuf, seed_mode, arg, prev, repeated, written, copied, discarded,
             steps, prevmode, accumulatedTime, main_t, pc, a0, t0, ucell, switches>>

\* SDL_QUIT, or SDL_KEYDOWN with SDLK_ESCAPE: goto EndMainLoop.
Quit ==
    /\ pc = "events"
    /\ pc' = "done"
    /\ UNCHANGED <<board, backbuf, seed_mode, op, arg, prev, repeated, written, copied, discarded,
                   steps, prevmode, main_dt, accumulatedTime, main_t, a0, t0,
                   ucell, switches>>

\* SDL_KEYDOWN with SDLK_SPACE, or SDL_MOUSEBUTTONDOWN with SDL_BUTTON_RIGHT.
KeySpace ==
    /\ pc = "events"
    /\ seed_mode' = ~seed_mode
    /\ op' = "ToggleSeed"
    /\ arg' = NoArg
    /\ prev' = board
    /\ prevmode' = seed_mode
    /\ repeated' = FALSE
    /\ UNCHANGED <<board, backbuf, written, copied, discarded, steps, mainvars>>

\* SDLK_s without the test that follows dt += 0.1.
KeySUnclamped ==
    /\ pc = "events"
    /\ main_dt' = main_dt + 1
    /\ op' = "KeyS"
    /\ UNCHANGED keyvars

\* SDL_KEYDOWN with SDLK_s: dt += 0.1; if (dt > 1.0) dt = 1.0.
KeyS ==
    /\ pc = "events"
    /\ main_dt' = IF main_dt + 1 > MaxDt THEN MaxDt ELSE main_dt + 1
    /\ op' = "KeyS"
    /\ UNCHANGED keyvars

\* SDLK_f with dt < 0.0 for its test and dt = 0.0 for its assignment.
KeyFToZero ==
    /\ pc = "events"
    /\ main_dt' = IF main_dt - 1 < 0 THEN 0 ELSE main_dt - 1
    /\ op' = "KeyF"
    /\ UNCHANGED keyvars

\* SDL_KEYDOWN with SDLK_f: dt -= 0.1; if (dt < 0.1) dt = 0.1.
KeyF ==
    /\ pc = "events"
    /\ main_dt' = IF main_dt - 1 < MinDt THEN MinDt ELSE main_dt - 1
    /\ op' = "KeyF"
    /\ UNCHANGED keyvars

\* A left click whose SeedCell call ends with ToggleSeed.
LeftClickLeaving(x, y) ==
    /\ pc = "events"
    /\ steps < MaxClicks
    /\ steps' = steps + 1
    /\ IF ~seed_mode
       THEN UNCHANGED <<board, backbuf, seed_mode>>
       ELSE LET r == SeededBufs(board, backbuf, x, y)
            IN  board' = r[1] /\ backbuf' = r[2] /\ seed_mode' = ~seed_mode
    /\ op' = "SeedCell"
    /\ arg' = IF seed_mode THEN <<x, y>> ELSE NoArg
    /\ prev' = board
    /\ prevmode' = seed_mode
    /\ repeated' = (seed_mode /\ op = "SeedCell" /\ arg = <<x, y>>)
    /\ UNCHANGED <<written, copied, discarded, mainvars>>

\* SDL_MOUSEBUTTONDOWN with SDL_BUTTON_LEFT: life.SeedCell(btn.x, btn.y).
LeftClick(x, y) ==
    /\ pc = "events"
    /\ steps < MaxClicks
    /\ steps' = steps + 1
    /\ IF ~seed_mode
       THEN UNCHANGED <<board, backbuf>>
       ELSE LET r == SeededBufs(board, backbuf, x, y)
            IN  board' = r[1] /\ backbuf' = r[2]
    /\ op' = "SeedCell"
    /\ arg' = IF seed_mode THEN <<x, y>> ELSE NoArg
    /\ prev' = board
    /\ prevmode' = seed_mode
    /\ repeated' = (seed_mode /\ op = "SeedCell" /\ arg = <<x, y>>)
    /\ UNCHANGED <<seed_mode, written, copied, discarded, mainvars>>

\* SDL_PollEvent has returned 0:
\* accumulatedTime += timeKeeper.ElapsedTimeInSeconds().
Elapse(e) ==
    /\ pc = "events"
    /\ main_t + accumulatedTime + e <= MaxTime
    /\ accumulatedTime' = accumulatedTime + e
    /\ a0' = accumulatedTime + e
    /\ t0' = main_t
    /\ pc' = "loop"
    /\ UNCHANGED <<board, backbuf, seed_mode, op, arg, prev, repeated, written, copied, discarded,
                   steps, prevmode, main_dt, main_t, ucell, switches>>

\* The loop's test with the loop skipped in seed mode.
LoopTestRunning == ~seed_mode /\ accumulatedTime >= main_dt

\* The loop's test with > for >=.
LoopTestStrict == accumulatedTime > main_dt

\* while (accumulatedTime >= dt)
LoopTest == accumulatedTime >= main_dt

\* One iteration of the loop:
\* life.Update(t, dt); accumulatedTime -= dt; t += dt.
StepUpdate ==
    /\ pc = "loop"
    /\ LoopTest
    /\ IF seed_mode
       THEN UNCHANGED <<board, backbuf>>
       ELSE LET r == UpdatedBufs(board, backbuf)
            IN  board' = r[1] /\ backbuf' = r[2]
    /\ accumulatedTime' = accumulatedTime - main_dt
    /\ main_t' = main_t + main_dt
    /\ op' = "Update"
    /\ arg' = NoArg
    /\ prev' = board
    /\ prevmode' = seed_mode
    /\ repeated' = FALSE
    /\ UNCHANGED <<seed_mode, written, copied, discarded, steps, main_dt, pc, a0, t0,
                   ucell, switches>>

\* The loop's test fails.
LoopExit ==
    /\ pc = "loop"
    /\ ~LoopTest
    /\ pc' = "render"
    /\ UNCHANGED <<board, backbuf, seed_mode, op, arg, prev, repeated, written, copied, discarded,
                   steps, prevmode, main_dt, accumulatedTime, main_t, a0, t0,
                   ucell, switches>>

\* life.Render(), which reads the front buffer, and the next frame begins.
Render ==
    /\ pc = "render"
    /\ pc' = "events"
    /\ UNCHANGED <<board, backbuf, seed_mode, op, arg, prev, repeated, written, copied, discarded,
                   steps, prevmode, main_dt, accumulatedTime, main_t, a0, t0,
                   ucell, switches>>

MainNext ==
    \/ Quit
    \/ KeySpace
    \/ KeyS
    \/ KeyF
    \/ \E x \in ClickPixels, y \in ClickPixels : LeftClick(x, y)
    \/ \E e \in Elapsed : Elapse(e)
    \/ StepUpdate
    \/ LoopExit
    \/ Render

MainSpec == MainInit /\ [][MainNext]_vars

(***************************************************************************)
(* MainFairSpec: main()'s loop over a shorter time and without left        *)
(* clicks, and running on: the loop is sequential code, so when an         *)
(* iteration or the exit can run, it does.                                 *)
(***************************************************************************)
FairElapse(e) ==
    /\ main_t + accumulatedTime + e <= MaxFairTime
    /\ Elapse(e)

MainFairNext ==
    \/ Quit
    \/ KeySpace
    \/ KeyS
    \/ KeyF
    \/ \E e \in Elapsed : FairElapse(e)
    \/ StepUpdate
    \/ LoopExit
    \/ Render

MainFairSpec ==
    MainInit /\ [][MainFairNext]_vars /\ WF_vars(StepUpdate) /\ WF_vars(LoopExit)

(***************************************************************************)
(* StepSpec: Update one iteration of its loops at a time, on a fresh       *)
(* instance and on seeded boards.  The program has one thread: no other    *)
(* operation runs while a call of Update is in progress.                   *)
(***************************************************************************)
StepInit == Init \/ SeededInit

\* What a step inside Update leaves alone.
stepvars == <<seed_mode, op, arg, prev, repeated, written, copied, discarded, steps,
              prevmode, main_dt, accumulatedTime, main_t, pc, a0, t0>>

\* The call of Update and its test of seed_mode.
UpdateBegin(t, dt) ==
    /\ ucell = NotUpdating
    /\ steps < MaxSteps
    /\ steps' = steps + 1
    /\ ucell' = IF seed_mode THEN NotUpdating ELSE 0
    /\ switches' = 0
    /\ op' = "Update"
    /\ arg' = NoArg
    /\ prev' = board
    /\ prevmode' = seed_mode
    /\ repeated' = FALSE
    /\ UNCHANGED <<board, backbuf, seed_mode, written, copied, discarded,
                   main_dt, accumulatedTime, main_t, pc, a0, t0>>

\* An iteration that writes the cell it makes live to the front buffer.
UpdateIterateInPlace ==
    /\ ucell # NotUpdating
    /\ ucell < Columns * Rows
    /\ board' = UpdateCell(board, board, ucell \div Rows, ucell % Rows)
    /\ ucell' = ucell + 1
    /\ UNCHANGED <<backbuf, switches, stepvars>>

\* One iteration of the inner loop, for x = ucell / Rows and y = ucell % Rows.
UpdateIterate ==
    /\ ucell # NotUpdating
    /\ ucell < Columns * Rows
    /\ backbuf' = UpdateCell(board, backbuf, ucell \div Rows, ucell % Rows)
    /\ ucell' = ucell + 1
    /\ UNCHANGED <<board, switches, stepvars>>

\* board.SwitchBuffer(), after the loops, and the return.
UpdateSwitch ==
    /\ ucell = Columns * Rows
    /\ LET r == SwitchedBufs(board, backbuf)
       IN  board' = r[1] /\ backbuf' = r[2]
    /\ switches' = switches + 1
    /\ ucell' = NotUpdating
    /\ UNCHANGED stepvars

\* ToggleSeed, between calls of Update.
StepToggleSeed ==
    /\ ucell = NotUpdating
    /\ ToggleSeed

StepNext ==
    \/ StepToggleSeed
    \/ \E a \in UpdateArgs : UpdateBegin(a[1], a[2])
    \/ UpdateIterate
    \/ UpdateSwitch

StepSpec == StepInit /\ [][StepNext]_vars

(***************************************************************************)
(* What the properties below are stated with.                              *)
(***************************************************************************)
Live(b, c) == ReadCell(b, c[1], c[2]) = 1

LiveSet(b) == {c \in Cells : Live(b, c)}

\* The 8 cells adjacent to c on the torus.
TorusNeighbours ==
    [c \in Cells |->
        {d \in Cells \ {c} : /\ Wrap(d[1] - c[1]) \in {0, 1, EDGE_SZ - 1}
                             /\ Wrap(d[2] - c[2]) \in {0, 1, EDGE_SZ - 1}}]

LiveNeighbours(b, c) == Cardinality({d \in TorusNeighbours[c] : Live(b, d)})

\* Conway's rule for cell c of the board b.
LifeRule(b, c) ==
    \/ Live(b, c) /\ LiveNeighbours(b, c) \in {2, 3}
    \/ ~Live(b, c) /\ LiveNeighbours(b, c) = 3

\* The cell of the torus under the pixel pair p.
PixelCell(p) == <<Wrap(p[1] \div CELL_SZ), Wrap(p[2] \div CELL_SZ)>>

\* The column and row in the middle of the board.
Centre == EDGE_SZ \div 2

\* Integers from below -EDGE_SZ to above 2 * EDGE_SZ.
WideRange == (0 - 2 * EDGE_SZ - 1) .. (2 * EDGE_SZ + 1)

\* Coordinates on both sides of -EDGE_SZ, of 0 and of EDGE_SZ.
EdgeRange == {0 - EDGE_SZ - 1, 0 - EDGE_SZ, 0 - 1, 0, EDGE_SZ - 1, EDGE_SZ}

(***************************************************************************)
(* C1 (SeededSpec).  An Update call made with seed mode off and a zeroed   *)
(* back buffer leaves a board in which a cell is live exactly when         *)
(* Conway's rule, counted over the 8 adjacent cells of the torus on the    *)
(* board before the call, says so.                                         *)
(***************************************************************************)
C1_UpdateAppliesRule ==
    [][(op' = "Update" /\ ~seed_mode /\ backbuf = ZeroBuf)
          => \A c \in Cells : Live(board', c) <=> LifeRule(board, c)]_vars

\* An Update has run on a board on which a live cell with more than three
\* live neighbours died, a live cell with three survived and a dead cell
\* with three was born.
C1_Witness ==
    /\ op = "Update" /\ ~seed_mode
    /\ \E c \in Cells : Live(prev, c) /\ LiveNeighbours(prev, c) > 3 /\ ~Live(board, c)
    /\ \E c \in Cells : Live(prev, c) /\ LiveNeighbours(prev, c) = 3 /\ Live(board, c)
    /\ \E c \in Cells : ~Live(prev, c) /\ LiveNeighbours(prev, c) = 3 /\ Live(board, c)

(***************************************************************************)
(* C2 (Spec).  After the constructor and exactly one Update call in        *)
(* Running mode the cells (c-1, c), (c, c), (c+1, c) are live and the      *)
(* cells (c, c-1), (c, c+1) are dead, c being EDGE_SZ / 2.                 *)
(***************************************************************************)
C2_DefaultSeedRotates ==
    (steps = 1 /\ op = "Update")
        => /\ CellAt(Centre - 1, Centre) = 1
           /\ CellAt(Centre, Centre) = 1
           /\ CellAt(Centre + 1, Centre) = 1
           /\ CellAt(Centre, Centre - 1) = 0
           /\ CellAt(Centre, Centre + 1) = 0

(***************************************************************************)
(* C3 (BoardSpec).  adjust is a floor-mod: its result lies in              *)
(* 0 .. EDGE_SZ-1 and is congruent to its argument, -1 goes to EDGE_SZ-1   *)
(* and EDGE_SZ to 0; CellAt gives the same value at coordinates EDGE_SZ    *)
(* apart along either axis, and ChangeCellTo has the same effect there.    *)
(***************************************************************************)
C3_WrapAround ==
    /\ \A v \in WideRange :
          /\ adjust(v, EDGE_SZ) \in 0 .. (EDGE_SZ - 1)
          /\ (adjust(v, EDGE_SZ) - v) % EDGE_SZ = 0
    /\ adjust(0 - 1, EDGE_SZ) = EDGE_SZ - 1
    /\ adjust(EDGE_SZ, EDGE_SZ) = 0
    /\ \A x \in EdgeRange, y \in EdgeRange :
          LET here == CellAt(x, y)
          IN  /\ here = CellAt(x + EDGE_SZ, y)
              /\ here = CellAt(x - EDGE_SZ, y)
              /\ here = CellAt(x, y + EDGE_SZ)
              /\ here = CellAt(x, y - EDGE_SZ)
    /\ \A x \in CallCoords, y \in CallCoords, v \in CallValues :
          LET here == WriteCell(backbuf, x, y, v)
          IN  /\ here = WriteCell(backbuf, x + EDGE_SZ, y, v)
              /\ here = WriteCell(backbuf, x, y - EDGE_SZ, v)

\* A cell written at (-1, EDGE_SZ) and committed is read at (EDGE_SZ-1, 0),
\* and at (-1, EDGE_SZ) as well.
C3_Witness ==
    /\ op = "SwitchBuffer"
    /\ Written(written, <<EDGE_SZ - 1, 0>>) = 1
    /\ CellAt(EDGE_SZ - 1, 0) = 1
    /\ CellAt(0 - 1, EDGE_SZ) = 1

(***************************************************************************)
(* C4 (BoardSpec).  A ChangeCellTo call leaves the front buffer as it was: *)
(* CellAt gives for every cell what it gave before the call.  (So it does  *)
(* after any number of such calls with no SwitchBuffer between them.)      *)
(***************************************************************************)
C4_WritesNotVisible ==
    [][op' = "ChangeCellTo"
          => /\ board' = board
             /\ \A c \in Cells : ReadCell(board', c[1], c[2]) = CellAt(c[1], c[2])]_vars

\* Two cells have been written with 1 since the last SwitchBuffer, which
\* committed a live cell; CellAt still reads the two as dead.
C4_Witness ==
    /\ op = "ChangeCellTo"
    /\ LiveSet(board) # {}
    /\ Cardinality({c \in Cells : Written(written, c) = 1 /\ CellAt(c[1], c[2]) = 0}) >= 2

(***************************************************************************)
(* C5 (BoardSpec).  After a SwitchBuffer call every cell written with      *)
(* ChangeCellTo since the SwitchBuffer before (and since the last          *)
(* CopyBuffer, which discards the writes before it) reads as the value     *)
(* written last; every other cell reads as dead, or, when CopyBuffer was   *)
(* called since the SwitchBuffer before, as it read before the call.       *)
(***************************************************************************)
C5_CommitVisibility ==
    op = "SwitchBuffer"
        => \A c \in Cells :
              CellAt(c[1], c[2]) =
                  IF Written(written, c) # None THEN Written(written, c)
                  ELSE IF copied THEN ReadCell(prev, c[1], c[2])
                  ELSE 0

\* A SwitchBuffer has committed a CopyBuffer followed by a write of 1: the
\* written cell is live, and a cell that was live before and was not
\* written is still live.
C5_Witness ==
    /\ op = "SwitchBuffer" /\ copied
    /\ \E c \in Cells : Written(written, c) = 1 /\ ~Live(prev, c) /\ Live(board, c)
    /\ \E c \in Cells : Written(written, c) = None /\ Live(prev, c) /\ Live(board, c)

\* A SwitchBuffer has committed writes alone: a cell that was live before
\* and was not written is dead now.
C5_WitnessDead ==
    /\ op = "SwitchBuffer" /\ ~copied
    /\ \E c \in Cells : Written(written, c) = 1 /\ Live(board, c)
    /\ \E c \in Cells : Written(written, c) = None /\ Live(prev, c) /\ ~Live(board, c)

(***************************************************************************)
(* C6 (Spec).  An Update call made while seed mode is on changes neither   *)
(* the front buffer, nor the back buffer, nor the mode.                    *)
(***************************************************************************)
C6_UpdateNoOpWhileSeeding ==
    [][(op' = "Update" /\ seed_mode)
          => /\ board' = board
             /\ backbuf' = backbuf
             /\ seed_mode' = seed_mode]_vars

\* An Update has run in seed mode, after at least two other operations, on a
\* board with live cells that the rule would have changed.
C6_Witness ==
    /\ op = "Update" /\ seed_mode /\ steps >= 3
    /\ LiveSet(board) # {}
    /\ \E c \in Cells : Live(board, c) # LifeRule(board, c)

(***************************************************************************)
(* C7 (Spec).  A SeedCell call made while seed mode is off changes neither *)
(* the front buffer, nor the back buffer, nor the mode.                    *)
(***************************************************************************)
C7_SeedCellNoOpWhileRunning ==
    [][(op' = "SeedCell" /\ ~seed_mode)
          => /\ board' = board
             /\ backbuf' = backbuf
             /\ seed_mode' = seed_mode]_vars

\* SeedCell has been called in Running mode, on a board with live cells and
\* on the fresh instance, whose back buffer holds the constructor's writes.
C7_Witness ==
    /\ op = "SeedCell" /\ ~seed_mode
    /\ \/ LiveSet(board) # {}
       \/ backbuf # ZeroBuf

(***************************************************************************)
(* C8 (Spec).  A SeedCell(px, py) call made in seed mode negates the cell  *)
(* (px / CELL_SZ, py / CELL_SZ) of the front buffer and leaves every other *)
(* cell of it as it was.                                                   *)
(***************************************************************************)
C8_SeedCellNegatesOneCell ==
    [][(op' = "SeedCell" /\ seed_mode)
          => \A c \in Cells :
                Live(board', c) <=>
                    IF c = PixelCell(arg') THEN ~Live(board, c) ELSE Live(board, c)]_vars

\* A SeedCell call has turned a live cell off on a board that holds other
\* live cells, which are live still.
C8_Witness ==
    /\ op = "SeedCell" /\ seed_mode
    /\ Live(prev, PixelCell(arg)) /\ ~Live(board, PixelCell(arg))
    /\ Cardinality(LiveSet(board)) >= 2
    /\ LiveSet(board) = LiveSet(prev) \ {PixelCell(arg)}

(***************************************************************************)
(* C9 (Spec).  Two SeedCell calls in a row with the same coordinates, made *)
(* in seed mode, leave the front buffer as it was before the first.        *)
(***************************************************************************)
C9_TogglePairing ==
    [][(op = "SeedCell" /\ seed_mode /\ op' = "SeedCell" /\ arg' = arg)
          => board' = prev]_vars

\* The second of two such calls has run, on a board with live cells.
C9_Witness ==
    /\ repeated /\ op = "SeedCell" /\ seed_mode
    /\ LiveSet(board) # {}
    /\ board # prev

(***************************************************************************)
(* C10 (SeededSpec).  On a board whose live cells are (x-1, y), (x, y),    *)
(* (x+1, y), for any centre (x, y), an Update in Running mode leaves       *)
(* exactly (x, y-1), (x, y), (x, y+1) live, and the Update after it leaves *)
(* exactly the first three live again.                                     *)
(***************************************************************************)
C10_BlinkerPeriod ==
    [][\A c \in Cells :
          /\ (op' = "Update" /\ ~seed_mode /\ LiveSet(board) = HBlinker(c))
                => LiveSet(board') = VBlinker(c)
          /\ (op = "Update" /\ op' = "Update" /\ ~seed_mode
                  /\ LiveSet(prev) = HBlinker(c))
                => LiveSet(board') = HBlinker(c)]_vars

\* Two Updates have run on the horizontal blinker centred on the corner
\* cell (0, 0), which lies across the left, right, top and bottom edges.
C10_Witness ==
    /\ op = "Update" /\ ~seed_mode /\ steps = 2
    /\ LiveSet(prev) = VBlinker(<<0, 0>>)
    /\ LiveSet(board) = HBlinker(<<0, 0>>)

(***************************************************************************)
(* C11 (SeededSpec).  On a board whose only live cells are a 2x2 block,    *)
(* wherever the block lies on the torus, an Update in Running mode leaves  *)
(* the committed board identical, byte for byte; so the board is the       *)
(* initial one after any number of Updates.                                *)
(***************************************************************************)
C11_BlockStillLife ==
    [][\A c \in Cells :
          (op' = "Update" /\ ~seed_mode /\ LiveSet(board) = Block(c))
              => (board' = board /\ LiveSet(board') = Block(c))]_vars

\* Four Updates in a row have run on the block whose corner is the last cell
\* of the last column, which lies across all four edges.
C11_Witness ==
    /\ op = "Update" /\ ~seed_mode /\ steps = 4
    /\ LiveSet(prev) = Block(<<EDGE_SZ - 1, EDGE_SZ - 1>>)
    /\ board = prev

\* The same for a block that touches no edge.
C11_WitnessInner ==
    /\ op = "Update" /\ ~seed_mode /\ steps = 4
    /\ LiveSet(prev) = Block(<<1, 2>>)
    /\ board = prev

(***************************************************************************)
(* C12 (Spec).  ToggleSeed can be called in either mode; a call flips      *)
(* seed_mode and leaves the front and the back buffer as they were; the    *)
(* second of two consecutive calls leaves the mode the first was called    *)
(* in.                                                                     *)
(***************************************************************************)
C12_ToggleSeedFlipsOnly ==
    /\ [](steps < MaxSteps => ENABLED ToggleSeed)
    /\ [][/\ op' = "ToggleSeed"
              => /\ seed_mode' = ~seed_mode
                 /\ board' = board
                 /\ backbuf' = backbuf
          /\ (op = "ToggleSeed" /\ op' = "ToggleSeed")
              => seed_mode' = prevmode]_vars

\* Two ToggleSeed calls in a row, the first made in seed mode on a board with
\* live cells, have returned to seed mode.
C12_Witness ==
    /\ op = "ToggleSeed" /\ seed_mode /\ ~prevmode
    /\ board = prev /\ board # ZeroBuf
    /\ steps >= 4

(***************************************************************************)
(* C13 (MainSpec).  dt, in tenths of a second, is 5 at first; a step that  *)
(* changes it is the handling of an 's' key press, which adds 1, or of an  *)
(* 'f' key press, which subtracts 1; it is within 1 .. 10 in every state,  *)
(* and so in every iteration of the loop that passes it to Update.         *)
(***************************************************************************)
C13_DtWithinRange ==
    /\ main_dt = 5
    /\ [](main_dt \in 1 .. 10)
    /\ [][/\ main_dt' # main_dt
              => /\ pc = "events" /\ pc' = "events"
                 /\ \/ op' = "KeyS" /\ main_dt' = main_dt + 1
                    \/ op' = "KeyF" /\ main_dt' = main_dt - 1
          /\ main_t' # main_t
              => (op' = "Update" /\ main_dt \in 1 .. 10)]_vars

\* dt was at most 2 when Update ran, and 's' key presses have since raised it
\* to 10.
C13_Witness ==
    /\ op = "KeyS" /\ main_dt = 10 /\ accumulatedTime = 4 /\ main_t = 2
    /\ pc = "events"

\* Update has been passed the least dt, twice in one frame.
C13_WitnessLeast ==
    /\ op = "Update" /\ main_dt = 1 /\ main_t = t0 + 2

(***************************************************************************)
(* C14 (Spec).  What a call of Update does to the board, the back buffer   *)
(* and the mode does not depend on its arguments: a step that is           *)
(* Update(t, dt) for one pair of t and dt is Update(t, dt) for every pair. *)
(* In Running mode the step is one generation: a cell is live after it     *)
(* when Conway's rule makes it live, or the back buffer held it.           *)
(***************************************************************************)
C14_TimeIndependence ==
    [][(\E a \in UpdateArgs : Update(a[1], a[2]))
          => /\ \A b \in UpdateArgs : Update(b[1], b[2])
             /\ ~seed_mode
                 => \A c \in Cells :
                        Live(board', c) <=> (LifeRule(board, c) \/ Live(backbuf, c))]_vars

\* An Update in Running mode has changed a board with live cells.
C14_Witness ==
    /\ op = "Update" /\ ~prevmode /\ ~seed_mode
    /\ prev # ZeroBuf /\ board # prev /\ board # ZeroBuf

(***************************************************************************)
(* C15 (Spec).  The back buffer is zero in every byte right after the      *)
(* construction of Life and after every Update or SeedCell call.  The      *)
(* constructor leaves the seed in it, so this fails in the first state,    *)
(* and after an Update or a SeedCell call that returns at its mode test.   *)
(***************************************************************************)
C15_BackBufferZero ==
    op \in {"Life", "Update", "SeedCell"} => backbuf = ZeroBuf

\* The part of C15 that the code keeps: an Update or a SeedCell call that
\* passes its mode test leaves the back buffer zero.
C15_ZeroAfterCommit ==
    [][\/ op' = "Update" /\ ~seed_mode
       \/ op' = "SeedCell" /\ seed_mode
          => backbuf' = ZeroBuf]_vars

(***************************************************************************)
(* C17 (Spec).  The seed the constructor wrote is live on the committed    *)
(* board after the first operation that commits, whichever it is: after    *)
(* an Update in Running mode the seed is the board, and after ToggleSeed   *)
(* and a SeedCell on a cell outside the seed the board is the seed and     *)
(* that cell.  SeedCell's CopyBuffer overwrites the seed, which is still   *)
(* in the back buffer, so the second part fails.                           *)
(***************************************************************************)
C17_SeedSurvivesFirstCommit ==
    LET seed == VBlinker(<<Centre, Centre>>)
    IN  /\ (steps = 1 /\ op = "Update")
            => LiveSet(board) = seed
        /\ (steps = 2 /\ op = "SeedCell" /\ seed_mode /\ PixelCell(arg) \notin seed)
            => LiveSet(board) = seed \cup {PixelCell(arg)}

\* What the code does in the second case: the board is the clicked cell alone.
C17_SeedLostToCopyBuffer ==
    (steps = 2 /\ op = "SeedCell" /\ seed_mode)
        => LiveSet(board) = {PixelCell(arg)}

(***************************************************************************)
(* C18 (MainSpec).  A frame adds the elapsed time to accumulatedTime; the  *)
(* loop then calls Update once for each subtraction of dt, made while      *)
(* accumulatedTime >= dt.  When the loop is left, 0 <= accumulatedTime <   *)
(* dt, and with a the value accumulatedTime had when the loop was entered, *)
(* dt has been subtracted a \div dt times and t has advanced by dt as many *)
(* times.                                                                  *)
(***************************************************************************)
C18_FixedTimeStep ==
    /\ [](pc = "render"
            => /\ 0 <= accumulatedTime /\ accumulatedTime < main_dt
               /\ a0 - accumulatedTime = (a0 \div main_dt) * main_dt
               /\ main_t - t0 = (a0 \div main_dt) * main_dt)
    /\ [][/\ accumulatedTime' > accumulatedTime
              => (pc = "events" /\ pc' = "loop" /\ a0' = accumulatedTime')
          /\ (accumulatedTime' < accumulatedTime \/ main_t' # main_t)
              => /\ pc = "loop" /\ pc' = "loop"
                 /\ op' = "Update"
                 /\ accumulatedTime >= main_dt
                 /\ accumulatedTime' = accumulatedTime - main_dt
                 /\ main_t' = main_t + main_dt]_vars

\* A frame's loop has called Update twice and left time over.
C18_Witness ==
    /\ pc = "render" /\ op = "Update"
    /\ main_t - t0 = 2 * main_dt
    /\ accumulatedTime > 0

\* A frame's loop has been left without a call of Update, with time
\* accumulated over two frames.
C18_WitnessNoCall ==
    /\ pc = "render" /\ main_t = t0 /\ accumulatedTime = 4 /\ main_dt = 5

(***************************************************************************)
(* C19 (MainFairSpec).  The fixed time step loop ends in every frame,      *)
(* whatever time has elapsed and whatever 'f' and 's' key presses came     *)
(* before: an iteration lowers accumulatedTime by dt >= 1 and keeps it at  *)
(* 0 or more, and a frame that has entered the loop reaches Render.        *)
(***************************************************************************)
C19_LoopTerminates ==
    /\ [][(pc = "loop" /\ pc' = "loop")
              => /\ main_dt >= 1
                 /\ accumulatedTime' < accumulatedTime
                 /\ accumulatedTime' >= 0]_vars
    /\ (pc = "loop") ~> (pc = "render")

\* The reaching of Render alone.
C19_ReachesRender == (pc = "loop") ~> (pc = "render")

\* A frame has reached Render after four iterations of its loop, with dt
\* lowered to its least value by 'f' key presses.
C19_Witness ==
    /\ pc = "render" /\ main_dt = 1 /\ op = "Update"
    /\ a0 = 4 /\ main_t = t0 + 4 /\ accumulatedTime = 0

(***************************************************************************)
(* C20 (MainSpec).  seed_mode is one of two values, false (Running) at     *)
(* first, and a step that changes it is the handling of an event that      *)
(* calls ToggleSeed: the Update calls of the loop, the SeedCell calls of   *)
(* left clicks, with the CellBoard calls they make, and the 's' and 'f'    *)
(* key presses leave it as it was.                                         *)
(***************************************************************************)
C20_ModeChangesByToggleOnly ==
    /\ seed_mode = FALSE
    /\ [](seed_mode \in BOOLEAN)
    /\ [][/\ seed_mode' # seed_mode
              => /\ op' = "ToggleSeed" /\ prevmode' = seed_mode
                 /\ pc = "events" /\ pc' = "events"
                 /\ UNCHANGED <<board, backbuf, steps, main_dt, accumulatedTime, main_t>>
          /\ (\/ main_t' # main_t
              \/ steps' # steps
              \/ main_dt' # main_dt
              \/ board' # board
              \/ backbuf' # backbuf)
              => seed_mode' = seed_mode]_vars

\* The calls on CellBoard, made from outside Life, leave seed_mode as it was.
C20_BoardCallsKeepMode == [][seed_mode' = seed_mode]_vars

\* In seed mode, after Update calls, a left click that changed the board has
\* been followed by an 's' key press, and the mode is still seed mode.
C20_Witness ==
    /\ seed_mode /\ op = "KeyS" /\ steps = 1
    /\ main_t > 0 /\ board # prev /\ arg # NoArg

(***************************************************************************)
(* C16 (StepSpec).  While an Update in Running mode runs its loops, the    *)
(* front buffer is the one the call found: no iteration modifies it, so    *)
(* every read of the call sees the board from before the call.             *)
(* SwitchBuffer runs once in the call, after the last cell, and that step  *)
(* alone changes the front buffer: it makes live every cell the rule makes *)
(* live on the board the call found.                                       *)
(***************************************************************************)
C16_SnapshotConsistency ==
    /\ [](ucell # NotUpdating => (board = prev /\ switches = 0 /\ ~seed_mode))
    /\ []((ucell = NotUpdating /\ op = "Update" /\ ~prevmode) => switches = 1)
    /\ [][/\ (ucell # NotUpdating /\ ucell' # NotUpdating)
              => (board' = board /\ ucell' = ucell + 1)
          /\ (board' # board \/ switches' > switches)
              => /\ ucell = Columns * Rows /\ ucell' = NotUpdating
                 /\ switches' = switches + 1
                 /\ board' = backbuf /\ backbuf' = ZeroBuf
                 /\ \A c \in Cells : LifeRule(prev, c) => Live(board', c)]_vars

\* The loops of an Update are past a cell that they made live in the back
\* buffer and that is dead on the front buffer, and past one that is live on
\* the front buffer and that they left dead in the back buffer.
C16_Witness ==
    /\ ucell # NotUpdating
    /\ \E c \in Cells :
          c[1] * Rows + c[2] < ucell /\ Live(backbuf, c) /\ ~Live(board, c)
    /\ \E c \in Cells :
          c[1] * Rows + c[2] < ucell /\ ~Live(backbuf, c) /\ Live(board, c)

\* An Update has made its one SwitchBuffer call and changed the board.
C16_WitnessSwitched ==
    /\ ucell = NotUpdating /\ op = "Update" /\ switches = 1
    /\ board # prev /\ prev # ZeroBuf /\ steps >= 2

(***************************************************************************)
(* C21 (BoardSpec).  A CopyBuffer call makes the back buffer equal to the  *)
(* front buffer, byte for byte and so cell for cell, whatever ChangeCellTo *)
(* had written to it since the last SwitchBuffer, and leaves the front     *)
(* buffer, and so every CellAt result, as it was.                          *)
(***************************************************************************)
C21_CopyBufferOverwrites ==
    [][op' = "CopyBuffer"
          => /\ backbuf' = board
             /\ \A c \in Cells : ReadCell(backbuf', c[1], c[2]) = CellAt(c[1], c[2])
             /\ board' = board
             /\ \A c \in Cells : ReadCell(board', c[1], c[2]) = CellAt(c[1], c[2])]_vars

\* CopyBuffer has run on a front buffer with a live cell and a back buffer
\* that differed from it, and the two are now the same.
C21_Witness ==
    /\ op = "CopyBuffer" /\ discarded
    /\ board # ZeroBuf /\ backbuf = board

\* The byte index and the bit index that CellAt and ChangeCellTo compute, for
\* all pairs of coordinates in WideRange.
IndicesOfWideRange ==
    {<<CDiv(CellOff(x, y), 8), CRem(CellOff(x, y), 8)>> : x \in WideRange, y \in WideRange}

(***************************************************************************)
(* C22 (BoardSpec).  For all coordinates x and y, negative ones and ones   *)
(* of EDGE_SZ or more among them, the byte index that CellAt and           *)
(* ChangeCellTo compute, (adjust(x) * EDGE_SZ + adjust(y)) / 8, is within  *)
(* 0 .. EDGE_SZ * EDGE_SZ / 8, which are the indices of board and of       *)
(* backbuf, and the bit index is within 0 .. 7.                            *)
(***************************************************************************)
C22_AccessInRange ==
    /\ DOMAIN board = 0 .. CDiv(EDGE_SZ * EDGE_SZ, 8)
    /\ DOMAIN backbuf = 0 .. CDiv(EDGE_SZ * EDGE_SZ, 8)
    /\ IndicesOfWideRange \subseteq (0 .. CDiv(EDGE_SZ * EDGE_SZ, 8)) \X (0 .. 7)
    /\ \A i \in DOMAIN board : board[i] \in 0 .. 255 /\ backbuf[i] \in 0 .. 255

\* ChangeCellTo(-1, -1, 1) has set the bit of the last cell, which is in the
\* last byte of the back buffer, and ChangeCellTo(EDGE_SZ, EDGE_SZ, 1) the
\* bit of the first cell, in the first byte.
C22_Witness ==
    /\ op = "ChangeCellTo"
    /\ Written(written, <<EDGE_SZ - 1, EDGE_SZ - 1>>) = 1
    /\ Written(written, <<0, 0>>) = 1
    /\ backbuf[BufLen - 1] # 0
    /\ backbuf[0] # 0

(***************************************************************************)
(* C23 (MainSpec).  Time that passes in seed mode is not saved up.  An     *)
(* iteration of the loop in seed mode subtracts dt from accumulatedTime    *)
(* though its Update call changes neither buffer; accumulatedTime < dt     *)
(* when a frame's loop is left, in seed mode as in Running mode; the event *)
(* handling that follows, a ToggleSeed call included, leaves               *)
(* accumulatedTime as it was; so the loop of a frame is entered with that  *)
(* residue and the frame's elapsed time, a, and calls Update a \div dt     *)
(* times, however long seed mode has lasted.                               *)
(***************************************************************************)
C23_NoCatchUpAfterSeedMode ==
    /\ []((pc = "render" /\ seed_mode) => accumulatedTime < main_dt)
    /\ []((pc = "render" /\ ~seed_mode)
            => /\ accumulatedTime < main_dt
               /\ main_t - t0 = (a0 \div main_dt) * main_dt)
    /\ [][/\ (seed_mode /\ pc = "loop" /\ pc' = "loop")
              => /\ accumulatedTime' = accumulatedTime - main_dt
                 /\ board' = board /\ backbuf' = backbuf
          /\ (pc = "render" \/ (pc = "events" /\ pc' = "events"))
              => accumulatedTime' = accumulatedTime
          /\ (pc = "events" /\ pc' = "loop")
              => /\ a0' = accumulatedTime'
                 /\ a0' - accumulatedTime \in Elapsed
                 /\ t0' = main_t]_vars

\* With dt at 2, a frame of 2 tenths has passed in seed mode on the fresh
\* instance, and the frame of 2 tenths in which Running mode is back has
\* called Update once: the board is the seed, one generation after the
\* empty board, and not the generation after the seed.
C23_Witness ==
    /\ pc = "render" /\ ~seed_mode /\ op = "Update"
    /\ main_dt = 2 /\ main_t = 4 /\ t0 = 2 /\ a0 = 2 /\ accumulatedTime = 0
    /\ prev = ZeroBuf
    /\ LiveSet(board) = VBlinker(<<Centre, Centre>>)

\* The cells of live, moved by the offset o on the torus.
Shifted(live, o) == {<<Wrap(c[1] + o[1]), Wrap(c[2] + o[2])>> : c \in live}

\* Offsets: one column, and more than the edge one way with one back the
\* other way.  Every offset on the torus is a sum of these two.
Offsets == {<<1, 0>>, <<EDGE_SZ + 2, 0 - 1>>}

(***************************************************************************)
(* C24 (SeededSpec).  Update commutes with translation on the torus: when  *)
(* an Update in Running mode, with the back buffer zero, takes the board B *)
(* to B2, Update takes B moved by an offset to B2 moved by that offset.    *)
(***************************************************************************)
C24_UpdateCommutesWithShift ==
    [][(op' = "Update" /\ ~seed_mode /\ backbuf = ZeroBuf)
          => LET before == LiveSet(board)
                 after  == LiveSet(board')
             IN  \A o \in Offsets :
                    LiveSet(UpdatedBufs(BufOf(Shifted(before, o)), ZeroBuf)[1])
                        = Shifted(after, o)]_vars

\* An Update has changed a board whose live cells lay across the right edge
\* and across the bottom edge, with births and deaths.
C24_Witness ==
    /\ op = "Update" /\ ~seed_mode /\ ~prevmode
    /\ \E c \in LiveSet(prev) : c[1] = EDGE_SZ - 1 /\ <<0, c[2]>> \in LiveSet(prev)
    /\ \E c \in LiveSet(prev) : c[2] = EDGE_SZ - 1 /\ <<c[1], 0>> \in LiveSet(prev)
    /\ LiveSet(board) \ LiveSet(prev) # {}
    /\ LiveSet(prev) \ LiveSet(board) # {}

\* The byte index and the bit index of the cell c.
CellPos(c) == <<CDiv(CellOff(c[1], c[2]), 8), CRem(CellOff(c[1], c[2]), 8)>>

\* The cells that the ChangeCellTo calls of BoardSpec write.
CallCells == {<<adjust(x, Columns), adjust(y, Rows)>> : x \in CallCoords, y \in CallCoords}

\* The buffer b with the bit of cell d negated.
Negated(b, d) == WriteCell(b, d[1], d[2], 1 - ReadCell(b, d[1], d[2]))

(***************************************************************************)
(* C25 (BoardSpec).  Distinct cells have distinct pairs of byte index and  *)
(* bit index.  A ChangeCellTo call that changes the back buffer changes    *)
(* one bit of it, the bit of the cell it writes, and so no other cell.     *)
(* CellAt depends on the one bit of its cell in the front buffer: on every *)
(* front buffer there is (SwitchBuffer alone changes it), negating the bit *)
(* of a cell changes what CellAt gives for that cell and for no other.     *)
(***************************************************************************)
C25_BitPackingInjective ==
    /\ \A c \in Cells, d \in Cells : CellPos(c) = CellPos(d) => c = d
    /\ [](op \in {"CellBoard", "SwitchBuffer"}
            => \A d \in CallCells :
                  LET b == Negated(board, d)
                  IN  \A c \in Cells :
                          ReadCell(b, c[1], c[2])
                              = IF c = d THEN 1 - CellAt(c[1], c[2])
                                         ELSE CellAt(c[1], c[2]))
    /\ [][(op' = "ChangeCellTo" /\ backbuf' # backbuf)
            => LET bytes   == {i \in ByteIdx : backbuf'[i] # backbuf[i]}
                   changed == {p \in bytes \X (0 .. 7) :
                                 BitOf(backbuf'[p[1]], p[2]) # BitOf(backbuf[p[1]], p[2])}
               IN  /\ Cardinality(changed) = 1
                   /\ \A p \in changed :
                         \E w \in CallCells :
                            /\ CellPos(w) = p
                            /\ Written(written', w) = ReadCell(backbuf', w[1], w[2])
                            /\ ReadCell(backbuf, w[1], w[2]) = 1 - Written(written', w)]_vars

\* Two cells of the first byte are live on the front buffer and were copied
\* to the back buffer, and ChangeCellTo has cleared one of them there and
\* left the other.
C25_Witness ==
    /\ op = "ChangeCellTo" /\ copied
    /\ Written(written, <<0, 2>>) = 0
    /\ board[0] = 5
    /\ backbuf[0] = 1

====
